---- MODULE Spec2Model ----
(***************************************************************************)
(* DataLoader (src/src/data/loader.py): load_all reads five whitespace-    *)
(* delimited files into a dict of tables; create_merged_monthly_dataset    *)
(* left-joins monthly_trade with turnover, the latest industry row per     *)
(* Stkcd and basic_info, sorts by (Stkcd, Trdmnt) and rescales Msmvosd.    *)
(*                                                                         *)
(* A table is [cols, rows, index]: the set of column names, the rows in    *)
(* order (each a function from cols to cells) and the index labels.  A     *)
(* cell is a tuple: Null (NaN/None) is <<>>, a string is the tuple of its  *)
(* characters (a Stkcd "10" is <<1, 0>>), any other value v is <<v>>.      *)
(***************************************************************************)
EXTENDS Integers, Sequences, FiniteSets, TLC

VARIABLES
    raw_data_path,    \* DataLoader.raw_data_path
    files,            \* names of the files present under raw_data_path
    sortTies,         \* how the build's unstable quicksort leaves equal keys
    mapping,          \* the caller's mapping object (or None)
    pc,               \* position of the running call
    data_dict,        \* parameter data_dict of create_merged_monthly_dataset
    loaded,           \* local data_dict of load_all
    reads,            \* files read by pd.read_csv during the current call
    loadCalls,        \* invocations of load_all during the current call
    monthly, turnover, industry, basic,   \* the four .copy() locals
    monthly_merged,   \* local monthly_merged
    latest_industry,  \* local latest_industry
    origin,           \* history: position in monthly of each row of monthly_merged
    result,           \* value returned to the caller
    err,              \* exception that propagated to the caller
    calls,            \* completed calls on this loader
    prev              \* value returned by the previous completed call

vars == <<raw_data_path, files, sortTies, mapping, pc, data_dict, loaded, reads,
          loadCalls, monthly, turnover, industry, basic, monthly_merged,
          latest_industry, origin, result, err, calls, prev>>

----------------------------------------------------------------------------
(* Values *)

Null == <<>>
None == [none |-> TRUE]

Range(s) == {s[i] : i \in 1..Len(s)}
SeqsUpTo(S, n) == UNION {[1..k -> S] : k \in 0..n}
Iota(n) == [i \in 1..n |-> i]

Tbl(cols, rows) == [cols |-> cols, rows |-> rows, index |-> Iota(Len(rows))]

\* Python's string order, and the order of wrapped numbers: lexicographic.
RECURSIVE StrLess(_, _)
StrLess(a, b) ==
    IF a = <<>> THEN b # <<>>
    ELSE IF b = <<>> THEN FALSE
    ELSE IF a[1] # b[1] THEN a[1] < b[1]
    ELSE StrLess(Tail(a), Tail(b))

\* na_position='last': a null sorts after every value.
CellLess(a, b) == a # Null /\ (b = Null \/ StrLess(a, b))

\* Rows compared on the columns of by, first column most significant.
RECURSIVE RowLess(_, _, _)
RowLess(by, r1, r2) ==
    IF by = <<>> THEN FALSE
    ELSE IF r1[by[1]] # r2[by[1]] THEN CellLess(r1[by[1]], r2[by[1]])
    ELSE RowLess(Tail(by), r1, r2)

----------------------------------------------------------------------------
(* pandas operations *)

HasCols(t, cs) == cs \subseteq t.cols

\* df[[c1, c2, ...]]
Project(t, cs) ==
    [cols |-> cs,
     rows |-> [i \in 1..Len(t.rows) |-> [c \in cs |-> t.rows[i][c]]],
     index |-> t.index]

\* Positions of the rows of right whose key equals that of l, in right's order.
RECURSIVE MatchPos(_, _, _, _)
MatchPos(l, rrows, on, i) ==
    IF i > Len(rrows) THEN <<>>
    ELSE (IF \A k \in on : rrows[i][k] = l[k] THEN <<i>> ELSE <<>>)
         \o MatchPos(l, rrows, on, i + 1)

\* One row of a left join: the left row's cells, then the right row's
\* non-key cells (null when r is None).
JoinRow(l, r, lcols, rcols) ==
    [c \in lcols \cup rcols |->
        IF c \in lcols THEN l[c] ELSE IF r = None THEN Null ELSE r[c]]

\* Mutant: how='inner', a left row without a match is dropped.
RECURSIVE MergePairsInner(_, _, _, _)
MergePairsInner(lrows, rrows, on, i) ==
    IF i > Len(lrows) THEN <<>>
    ELSE LET m == MatchPos(lrows[i], rrows, on, 1)
         IN [j \in 1..Len(m) |-> <<i, m[j]>>]
            \o MergePairsInner(lrows, rrows, on, i + 1)

\* The (left position, right position or 0) pairs of pd.merge(how='left'):
\* left order is kept, each left row once per matching right row.
RECURSIVE MergePairs(_, _, _, _)
MergePairs(lrows, rrows, on, i) ==
    IF i > Len(lrows) THEN <<>>
    ELSE LET m == MatchPos(lrows[i], rrows, on, 1)
         IN (IF m = <<>> THEN << <<i, 0>> >>
             ELSE [j \in 1..Len(m) |-> <<i, m[j]>>])
            \o MergePairs(lrows, rrows, on, i + 1)

\* pd.merge(left, right, on=on, how='left'); the result has a fresh RangeIndex.
Merge(left, right, on) ==
    LET p == MergePairs(left.rows, right.rows, on, 1)
    IN Tbl(left.cols \cup right.cols,
           [j \in 1..Len(p) |->
               JoinRow(left.rows[p[j][1]],
                       IF p[j][2] = 0 THEN None ELSE right.rows[p[j][2]],
                       left.cols, right.cols)])

\* Left positions of the rows of Merge(left, right, on).
MergeOrigin(left, right, on) ==
    LET p == MergePairs(left.rows, right.rows, on, 1)
    IN [j \in 1..Len(p) |-> p[j][1]]

\* Mutant: the insertion goes before the positions of equal key (not stable).
RECURSIVE InsertPosBeforeEqual(_, _, _, _)
InsertPosBeforeEqual(s, x, rows, by) ==
    IF s = <<>> THEN <<x>>
    ELSE IF ~RowLess(by, rows[s[1]], rows[x]) THEN <<x>> \o s
    ELSE <<s[1]>> \o InsertPosBeforeEqual(Tail(s), x, rows, by)

\* Insert position x into the sorted list of positions s, after every
\* position whose row is not greater: the insertion keeps equal keys in
\* arrival order.
RECURSIVE InsertPos(_, _, _, _)
InsertPos(s, x, rows, by) ==
    IF s = <<>> THEN <<x>>
    ELSE IF RowLess(by, rows[x], rows[s[1]]) THEN <<x>> \o s
    ELSE <<s[1]>> \o InsertPos(Tail(s), x, rows, by)

\* Sort the positions ps of rows by the columns by, equal keys in the order of ps.
RECURSIVE SortPos(_, _, _)
SortPos(ps, rows, by) ==
    IF ps = <<>> THEN <<>>
    ELSE InsertPos(SortPos(SubSeq(ps, 1, Len(ps) - 1), rows, by),
                   ps[Len(ps)], rows, by)

Reverse(s) == [i \in 1..Len(s) |-> s[Len(s) + 1 - i]]

\* The rows of t at the positions perm, with their index labels.
Take(t, perm) ==
    [cols |-> t.cols,
     rows |-> [i \in 1..Len(perm) |-> t.rows[perm[i]]],
     index |-> [i \in 1..Len(perm) |-> t.index[perm[i]]]]

\* df.sort_values([c1, c2]): several columns go through a lexsort, which is stable.
SortValuesLex(t, by) == Take(t, SortPos(Iota(Len(t.rows)), t.rows, by))

\* df.sort_values(c): one column goes through nargsort with kind='quicksort'.
\* The non-null keys are argsorted, the null rows follow in input order.
\* quicksort is not stable: ties is the order the build leaves equal keys in.
SortValuesOne(t, c, ties) ==
    LET n      == Len(t.rows)
        nonnan == SelectSeq(Iota(n), LAMBDA i : t.rows[i][c] # Null)
        nan    == SelectSeq(Iota(n), LAMBDA i : t.rows[i][c] = Null)
        sorted == IF ties = "input" THEN SortPos(nonnan, t.rows, <<c>>)
                  ELSE SortPos(Reverse(nonnan), t.rows, <<c>>)
    IN Take(t, sorted \o nan)

\* The elements of a set of strings in ascending order.
RECURSIVE SortedKeys(_)
SortedKeys(S) ==
    IF S = {} THEN <<>>
    ELSE LET m == CHOOSE x \in S : \A y \in S : x = y \/ StrLess(x, y)
         IN <<m>> \o SortedKeys(S \ {m})

\* GroupBy.last() of one column: the last non-null cell of the group, else null.
LastNonNull(rows, c) ==
    LET nn == SelectSeq(rows, LAMBDA r : r[c] # Null)
    IN IF nn = <<>> THEN Null ELSE nn[Len(nn)][c]

\* df.groupby(key).last().reset_index(): one row per non-null key, keys
\* ascending, each other column reduced on its own by LastNonNull.
GroupbyLast(t, key) ==
    LET ks == SortedKeys({t.rows[i][key] : i \in 1..Len(t.rows)} \ {Null})
    IN Tbl(t.cols,
           [g \in 1..Len(ks) |->
               [c \in t.cols |->
                   IF c = key THEN ks[g]
                   ELSE LastNonNull(
                            SelectSeq(t.rows, LAMBDA r : r[key] = ks[g]), c)]])

\* industry.sort_values('Listdt').groupby('Stkcd').last().reset_index()
LatestIndustry(t, ties) == GroupbyLast(SortValuesOne(t, "Listdt", ties), "Stkcd")

\* Mutant: the rescale applied twice.
Times1000Twice(c) == IF c = Null THEN Null ELSE <<c[1] * 1000 * 1000>>

\* A cell of Msmvosd times 1000; NaN * 1000 is NaN.
Times1000(c) == IF c = Null THEN Null ELSE <<c[1] * 1000>>

\* df['Msmvosd'] = df['Msmvosd'] * 1000
ScaleMsmvosd(t) ==
    [t EXCEPT !.rows = [i \in 1..Len(t.rows) |->
                           [t.rows[i] EXCEPT !["Msmvosd"] = Times1000(@)]]]

----------------------------------------------------------------------------
(* Bounds and input domains *)

MaxMonthly == 2
MaxTurnover == 2
MaxIndustry == 2
MaxBasic == 2
MaxCalls == 2

\* The identifiers "10" and "2" (as strings "10" < "2"), two months.
Stkcds == {<<1, 0>>, <<2>>}
Months == {<<1>>, <<2>>}

MonthlyCols  == {"Stkcd", "Trdmnt", "Msmvosd"}
TurnoverCols == {"Stkcd", "Trdmnt", "ToverOsM"}
IndustryCols == {"Stkcd", "Nnindcd", "Nnindnme", "Listdt"}
BasicCols    == {"Stkcd", "Markettype", "Listdt"}
DailyCols    == {"Stkcd", "Trddt"}

MonthlyRows  == [Stkcd : Stkcds, Trdmnt : Months, Msmvosd : {Null, <<3>>, <<4>>}]
TurnoverRows == [Stkcd : Stkcds, Trdmnt : Months, ToverOsM : {Null, <<7>>}]
\* Industry rows: a full row, a row without a name, a row without a code.
IndustryRows ==
    {r \in [Stkcd : Stkcds, Listdt : {Null, <<1>>, <<2>>},
            Nnindcd : {Null, <<"A">>, <<"B">>}, Nnindnme : {Null, <<"x">>}] :
        <<r.Nnindcd, r.Nnindnme>> \in
            {<< <<"A">>, <<"x">> >>, << <<"B">>, Null >>, << Null, <<"x">> >>}}
BasicRows    == [Stkcd : Stkcds, Markettype : {Null, <<1>>}, Listdt : {<<5>>}]

BaseMonthly ==
    << [Stkcd |-> <<2>>, Trdmnt |-> <<2>>, Msmvosd |-> <<3>>],
       [Stkcd |-> <<1, 0>>, Trdmnt |-> <<1>>, Msmvosd |-> <<4>>],
       [Stkcd |-> <<2>>, Trdmnt |-> <<1>>, Msmvosd |-> <<4>>] >>
BaseTurnover ==
    << [Stkcd |-> <<2>>, Trdmnt |-> <<1>>, ToverOsM |-> <<7>>],
       [Stkcd |-> <<1, 0>>, Trdmnt |-> <<2>>, ToverOsM |-> <<7>>] >>
BaseIndustry ==
    << [Stkcd |-> <<2>>, Listdt |-> <<2>>, Nnindcd |-> <<"B">>, Nnindnme |-> <<"x">>],
       [Stkcd |-> <<2>>, Listdt |-> <<1>>, Nnindcd |-> <<"A">>, Nnindnme |-> <<"x">>] >>
BaseBasic ==
    << [Stkcd |-> <<2>>, Markettype |-> <<1>>, Listdt |-> <<5>>] >>
BaseDaily ==
    << [Stkcd |-> <<2>>, Trddt |-> <<1>>] >>

\* A mapping with the five keys of load_all.
Dict(b, i, d, m, t) ==
    [basic_info |-> b, industry |-> i, daily_trade |-> d,
     monthly_trade |-> m, turnover |-> t]

BaseDict ==
    Dict(Tbl(BasicCols, BaseBasic), Tbl(IndustryCols, BaseIndustry),
         Tbl(DailyCols, BaseDaily), Tbl(MonthlyCols, BaseMonthly),
         Tbl(TurnoverCols, BaseTurnover))

Keys == {"basic_info", "industry", "daily_trade", "monthly_trade", "turnover"}

\* The five reads of load_all in program order: the key and the file name.
LoadOrder ==
    << [key |-> "basic_info",    file |-> "basic_info.txt"],
       [key |-> "industry",      file |-> "csrc2012_industry.txt"],
       [key |-> "daily_trade",   file |-> "daily_trade.txt"],
       [key |-> "monthly_trade", file |-> "monthly_trade.txt"],
       [key |-> "turnover",      file |-> "turnover_monthly.txt"] >>

FileNames == {LoadOrder[i].file : i \in 1..Len(LoadOrder)}

\* What pd.read_csv returns for the file of key k (the content on disk).
ReadCsvTable(k) == BaseDict[k]

\* d without the column c of the table at key k.
DropCol(d, k, c) ==
    [d EXCEPT ![k] = Project(d[k], d[k].cols \ {c})]

\* d without the key k.
DropKey(d, k) == [x \in (DOMAIN d) \ {k} |-> d[x]]

----------------------------------------------------------------------------
(* Initial states: a constructed DataLoader, the files on disk, the build's *)
(* sort, and the mapping the caller is going to pass (None: load from disk) *)

InitLocals ==
    /\ pc = "idle"
    /\ data_dict = None
    /\ loaded = None
    /\ reads = <<>>
    /\ loadCalls = 0
    /\ monthly = None /\ turnover = None /\ industry = None /\ basic = None
    /\ monthly_merged = None
    /\ latest_industry = None
    /\ origin = <<>>
    /\ result = None
    /\ err = "None"
    /\ calls = 0
    /\ prev = None

InitLoader == raw_data_path = "../data/raw"

\* No mapping supplied; any subset of the five files exists.
InitLoad ==
    /\ mapping = None
    /\ files \in SUBSET FileNames
    /\ sortTies \in {"input", "reversed"}

\* A supplied mapping where one table ranges over every table of its bound.
InitMonthly ==
    /\ \E m \in SeqsUpTo(MonthlyRows, MaxMonthly) :
           mapping = [BaseDict EXCEPT !.monthly_trade = Tbl(MonthlyCols, m)]
    /\ files = FileNames
    /\ sortTies = "input"

InitTurnover ==
    /\ \E t \in SeqsUpTo(TurnoverRows, MaxTurnover) :
           mapping = [BaseDict EXCEPT !.turnover = Tbl(TurnoverCols, t)]
    /\ files = FileNames
    /\ sortTies = "input"

InitIndustry ==
    /\ \E i \in SeqsUpTo(IndustryRows, MaxIndustry) :
           mapping = [BaseDict EXCEPT !.industry = Tbl(IndustryCols, i)]
    /\ files = FileNames
    /\ sortTies \in {"input", "reversed"}

InitBasic ==
    /\ \E b \in SeqsUpTo(BasicRows, MaxBasic) :
           mapping = [BaseDict EXCEPT !.basic_info = Tbl(BasicCols, b)]
    /\ files = FileNames
    /\ sortTies = "input"

\* A supplied mapping with one key or one column missing.
InitSchema ==
    /\ \/ \E k \in Keys : mapping = DropKey(BaseDict, k)
       \/ \E k \in Keys : \E c \in BaseDict[k].cols : mapping = DropCol(BaseDict, k, c)
    /\ files = FileNames
    /\ sortTies = "input"

Init ==
    /\ InitLoader
    /\ InitLocals
    /\ \/ InitLoad
       \/ InitMonthly
       \/ InitTurnover
       \/ InitIndustry
       \/ InitBasic
       \/ InitSchema

----------------------------------------------------------------------------
(* The call *)

\* The frame's locals once the call has ended.
DropLocals ==
    /\ data_dict' = None
    /\ loaded' = None
    /\ monthly' = None /\ turnover' = None /\ industry' = None /\ basic' = None
    /\ monthly_merged' = None
    /\ latest_industry' = None

DropFrame == DropLocals /\ origin' = <<>>

\* Mutant: the exception is swallowed into a degraded result, the table
\* built so far.
RaiseReturningPartial(e) ==
    /\ pc' = "raised"
    /\ err' = e
    /\ result' = monthly_merged
    /\ DropFrame
    /\ UNCHANGED <<raw_data_path, files, sortTies, mapping, reads, loadCalls,
                   calls, prev>>

\* An exception leaves the call: nothing is returned.
Raise(e) ==
    /\ pc' = "raised"
    /\ err' = e
    /\ DropFrame
    /\ UNCHANGED <<raw_data_path, files, sortTies, mapping, reads, loadCalls,
                   result, calls, prev>>

\* The caller invokes loader.create_merged_monthly_dataset(mapping).
Call ==
    /\ pc \in {"idle", "returned", "raised"}
    /\ calls < MaxCalls
    /\ calls' = calls + 1
    /\ prev' = result
    /\ result' = None
    /\ err' = "None"
    /\ data_dict' = mapping
    /\ reads' = <<>>
    /\ loadCalls' = 0
    /\ origin' = <<>>
    /\ pc' = "entry"
    /\ UNCHANGED <<raw_data_path, files, sortTies, mapping, loaded, monthly,
                   turnover, industry, basic, monthly_merged, latest_industry>>

\* Mutant: load_all is invoked whatever the argument.
EntryAlwaysLoad ==
    /\ pc = "entry"
    /\ pc' = "load"
    /\ loadCalls' = loadCalls + 1
    /\ loaded' = <<>>
    /\ UNCHANGED <<raw_data_path, files, sortTies, mapping, data_dict, reads,
                   monthly, turnover, industry, basic, monthly_merged,
                   latest_industry, origin, result, err, calls, prev>>

\* if data_dict is None: data_dict = self.load_all()
Entry ==
    /\ pc = "entry"
    /\ IF data_dict = None
       THEN /\ pc' = "load"
            /\ loadCalls' = loadCalls + 1
            /\ loaded' = <<>>
       ELSE /\ pc' = "copy"
            /\ UNCHANGED <<loadCalls, loaded>>
    /\ UNCHANGED <<raw_data_path, files, sortTies, mapping, data_dict, reads,
                   monthly, turnover, industry, basic, monthly_merged,
                   latest_industry, origin, result, err, calls, prev>>

\* Mutant: an absent file is skipped and load_all goes on with the next one.
ReadCsvSkipMissing ==
    /\ pc = "load"
    /\ Len(reads) < Len(LoadOrder)
    /\ LET f == LoadOrder[Len(reads) + 1]
       IN /\ loaded' = IF f.file \in files
                        THEN [k \in (DOMAIN loaded) \cup {f.key} |->
                                 IF k = f.key THEN ReadCsvTable(f.key) ELSE loaded[k]]
                        ELSE loaded
          /\ reads' = Append(reads, f.file)
    /\ UNCHANGED <<raw_data_path, files, sortTies, mapping, pc, data_dict,
                   loadCalls, monthly, turnover, industry, basic, monthly_merged,
                   latest_industry, origin, result, err, calls, prev>>

\* load_all: the next pd.read_csv and data_dict[key] = table.
ReadCsv ==
    /\ pc = "load"
    /\ Len(reads) < Len(LoadOrder)
    /\ LET f == LoadOrder[Len(reads) + 1]
       IN IF f.file \in files
          THEN /\ loaded' = [k \in (DOMAIN loaded) \cup {f.key} |->
                                IF k = f.key THEN ReadCsvTable(f.key) ELSE loaded[k]]
               /\ reads' = Append(reads, f.file)
               /\ UNCHANGED <<raw_data_path, files, sortTies, mapping, pc,
                              data_dict, loadCalls, monthly, turnover, industry,
                              basic, monthly_merged, latest_industry, origin,
                              result, err, calls, prev>>
          ELSE Raise("FileNotFoundError")

\* load_all: return data_dict, assigned to the caller's data_dict.
LoadReturn ==
    /\ pc = "load"
    /\ Len(reads) = Len(LoadOrder)
    /\ data_dict' = loaded
    /\ loaded' = None
    /\ pc' = "copy"
    /\ UNCHANGED <<raw_data_path, files, sortTies, mapping, reads, loadCalls,
                   monthly, turnover, industry, basic, monthly_merged,
                   latest_industry, origin, result, err, calls, prev>>

\* monthly = data_dict['monthly_trade'].copy() and the three others.
Copy ==
    /\ pc = "copy"
    /\ IF {"monthly_trade", "turnover", "industry", "basic_info"} \subseteq DOMAIN data_dict
       THEN /\ monthly' = data_dict["monthly_trade"]
            /\ turnover' = data_dict["turnover"]
            /\ industry' = data_dict["industry"]
            /\ basic' = data_dict["basic_info"]
            /\ pc' = "merge_turnover"
            /\ UNCHANGED <<raw_data_path, files, sortTies, mapping, data_dict,
                           loaded, reads, loadCalls, monthly_merged,
                           latest_industry, origin, result, err, calls, prev>>
       ELSE Raise("KeyError")

\* monthly_merged = pd.merge(monthly, turnover[[...]], on=['Stkcd','Trdmnt'], how='left')
MergeTurnover ==
    /\ pc = "merge_turnover"
    /\ IF /\ HasCols(turnover, {"Stkcd", "Trdmnt", "ToverOsM"})
          /\ HasCols(monthly, {"Stkcd", "Trdmnt"})
       THEN LET right == Project(turnover, {"Stkcd", "Trdmnt", "ToverOsM"})
            IN /\ monthly_merged' = Merge(monthly, right, {"Stkcd", "Trdmnt"})
               /\ origin' = MergeOrigin(monthly, right, {"Stkcd", "Trdmnt"})
               /\ pc' = "latest_industry"
               /\ UNCHANGED <<raw_data_path, files, sortTies, mapping, data_dict,
                              loaded, reads, loadCalls, monthly, turnover,
                              industry, basic, latest_industry, result, err,
                              calls, prev>>
       ELSE Raise("KeyError")

\* latest_industry = industry.sort_values('Listdt').groupby('Stkcd').last().reset_index()
ResolveIndustry ==
    /\ pc = "latest_industry"
    /\ IF HasCols(industry, {"Listdt", "Stkcd"})
       THEN /\ latest_industry' = LatestIndustry(industry, sortTies)
            /\ pc' = "merge_industry"
            /\ UNCHANGED <<raw_data_path, files, sortTies, mapping, data_dict,
                           loaded, reads, loadCalls, monthly, turnover, industry,
                           basic, monthly_merged, origin, result, err, calls, prev>>
       ELSE Raise("KeyError")

\* monthly_merged = pd.merge(monthly_merged, latest_industry[[...]], on='Stkcd', how='left')
MergeIndustry ==
    /\ pc = "merge_industry"
    /\ IF HasCols(latest_industry, {"Stkcd", "Nnindcd", "Nnindnme"})
       THEN LET right == Project(latest_industry, {"Stkcd", "Nnindcd", "Nnindnme"})
            IN /\ monthly_merged' = Merge(monthly_merged, right, {"Stkcd"})
               /\ origin' = [j \in 1..Len(MergeOrigin(monthly_merged, right, {"Stkcd"})) |->
                                origin[MergeOrigin(monthly_merged, right, {"Stkcd"})[j]]]
               /\ pc' = "merge_basic"
               /\ UNCHANGED <<raw_data_path, files, sortTies, mapping, data_dict,
                              loaded, reads, loadCalls, monthly, turnover,
                              industry, basic, latest_industry, result, err,
                              calls, prev>>
       ELSE Raise("KeyError")

\* monthly_merged = pd.merge(monthly_merged, basic[[...]], on='Stkcd', how='left')
MergeBasic ==
    /\ pc = "merge_basic"
    /\ IF HasCols(basic, {"Stkcd", "Markettype", "Listdt"})
       THEN LET right == Project(basic, {"Stkcd", "Markettype", "Listdt"})
            IN /\ monthly_merged' = Merge(monthly_merged, right, {"Stkcd"})
               /\ origin' = [j \in 1..Len(MergeOrigin(monthly_merged, right, {"Stkcd"})) |->
                                origin[MergeOrigin(monthly_merged, right, {"Stkcd"})[j]]]
               /\ pc' = "sort"
               /\ UNCHANGED <<raw_data_path, files, sortTies, mapping, data_dict,
                              loaded, reads, loadCalls, monthly, turnover,
                              industry, basic, latest_industry, result, err,
                              calls, prev>>
       ELSE Raise("KeyError")

\* monthly_merged = monthly_merged.sort_values(['Stkcd', 'Trdmnt'])
SortPanel ==
    /\ pc = "sort"
    /\ LET s == SortValuesLex(monthly_merged, <<"Stkcd", "Trdmnt">>)
       IN /\ monthly_merged' = s
          /\ origin' = [j \in 1..Len(s.index) |-> origin[s.index[j]]]
    /\ pc' = "scale"
    /\ UNCHANGED <<raw_data_path, files, sortTies, mapping, data_dict, loaded,
                   reads, loadCalls, monthly, turnover, industry, basic,
                   latest_industry, result, err, calls, prev>>

\* Mutant: the rescale also writes the caller's monthly_trade table.
ScaleInPlace ==
    /\ pc = "scale"
    /\ IF "Msmvosd" \in monthly_merged.cols
       THEN /\ monthly_merged' = ScaleMsmvosd(monthly_merged)
            /\ mapping' = IF mapping = None THEN mapping
                          ELSE [mapping EXCEPT !.monthly_trade = ScaleMsmvosd(@)]
            /\ pc' = "return"
            /\ UNCHANGED <<raw_data_path, files, sortTies, data_dict, loaded,
                           reads, loadCalls, monthly, turnover, industry, basic,
                           latest_industry, origin, result, err, calls, prev>>
       ELSE Raise("KeyError")

\* monthly_merged['Msmvosd'] = monthly_merged['Msmvosd'] * 1000
Scale ==
    /\ pc = "scale"
    /\ IF "Msmvosd" \in monthly_merged.cols
       THEN /\ monthly_merged' = ScaleMsmvosd(monthly_merged)
            /\ pc' = "return"
            /\ UNCHANGED <<raw_data_path, files, sortTies, mapping, data_dict,
                           loaded, reads, loadCalls, monthly, turnover, industry,
                           basic, latest_industry, origin, result, err, calls,
                           prev>>
       ELSE Raise("KeyError")

\* return monthly_merged
Return ==
    /\ pc = "return"
    /\ result' = monthly_merged
    /\ pc' = "returned"
    /\ DropLocals
    /\ UNCHANGED <<raw_data_path, files, sortTies, mapping, reads, loadCalls,
                   origin, err, calls, prev>>

Next ==
    \/ Call
    \/ Entry
    \/ ReadCsv
    \/ LoadReturn
    \/ Copy
    \/ MergeTurnover
    \/ ResolveIndustry
    \/ MergeIndustry
    \/ MergeBasic
    \/ SortPanel
    \/ Scale
    \/ Return

Spec == Init /\ [][Next]_vars

----------------------------------------------------------------------------
(* Properties *)

\* The tables the call works on: the supplied mapping, else the files' content.
InputDict == IF mapping = None THEN BaseDict ELSE mapping

Ended == pc \in {"returned", "raised"}

\* The program points at which data_dict is the complete mapping.
LoadedPcs == {"copy", "merge_turnover", "latest_industry", "merge_industry",
              "merge_basic", "sort", "scale", "return", "returned"}

\* The columns the builder reads from each table it uses.
KeyCols ==
    [monthly_trade |-> {"Stkcd", "Trdmnt"}, turnover |-> {"Stkcd", "Trdmnt"},
     industry |-> {"Stkcd"}, basic_info |-> {"Stkcd"}]
ProjCols ==
    [monthly_trade |-> {"Msmvosd"}, turnover |-> {"ToverOsM"},
     industry |-> {"Nnindcd", "Nnindnme", "Listdt"},
     basic_info |-> {"Markettype", "Listdt"}]
UsedKeys == DOMAIN KeyCols

Supplied == mapping # None /\ UsedKeys \subseteq DOMAIN mapping
MissingKeyCol == Supplied /\ \E k \in UsedKeys : ~(KeyCols[k] \subseteq mapping[k].cols)
MissingProjCol == Supplied /\ \E k \in UsedKeys : ~(ProjCols[k] \subseteq mapping[k].cols)

SameKey(a, b) == a.Stkcd = b.Stkcd /\ a.Trdmnt = b.Trdmnt

\* C1: whenever the call returns, the panel has as many rows as monthly_trade.
C1_RowCountInvariant ==
    pc = "returned" => Len(result.rows) = Len(InputDict.monthly_trade.rows)

\* C2: every output row of an identifier that has industry rows carries the
\* code and the name of one industry row of that identifier whose Listdt is
\* the maximum (nulls aside).
C2_LatestIndustryRow ==
    pc = "returned" =>
        LET ind == InputDict.industry.rows
        IN \A j \in 1..Len(result.rows) :
            LET r  == result.rows[j]
                ir == {k \in 1..Len(ind) : ind[k].Stkcd = r.Stkcd}
                IsMax(k) ==
                    \/ \A k2 \in ir : ind[k2].Listdt = Null
                    \/ /\ ind[k].Listdt # Null
                       /\ \A k2 \in ir : \/ ind[k2].Listdt = Null
                                         \/ ~StrLess(ind[k].Listdt, ind[k2].Listdt)
            IN ir # {} =>
                   \E k \in ir : /\ IsMax(k)
                                 /\ r.Nnindcd = ind[k].Nnindcd
                                 /\ r.Nnindnme = ind[k].Nnindnme

\* C3: every monthly_trade row is in the output; its joined fields are null
\* when the right table has no row of its key, and are the fields of a
\* matching right row when there is one (every matching turnover and
\* basic_info row shows up).
C3_LeftJoinNullSafety ==
    pc = "returned" =>
        LET d   == InputDict
            m   == d.monthly_trade.rows
            t   == d.turnover.rows
            b   == d.basic_info.rows
            ind == d.industry.rows
            li  == LatestIndustry(d.industry, sortTies).rows
            out == result.rows
        IN /\ Len(origin) = Len(out)
           /\ \A i \in 1..Len(m) : \E j \in 1..Len(out) : origin[j] = i
           /\ \A j \in 1..Len(out) :
                LET l  == m[origin[j]]
                    r  == out[j]
                    tm == {k \in 1..Len(t) : SameKey(t[k], l)}
                    bm == {k \in 1..Len(b) : b[k].Stkcd = l.Stkcd}
                    im == {k \in 1..Len(li) : li[k].Stkcd = l.Stkcd}
                IN /\ SameKey(r, l)
                   /\ IF tm = {} THEN r.ToverOsM = Null
                      ELSE \E k \in tm : r.ToverOsM = t[k].ToverOsM
                   /\ IF \A k \in 1..Len(ind) : ind[k].Stkcd # l.Stkcd
                      THEN r.Nnindcd = Null /\ r.Nnindnme = Null
                      ELSE \E k \in im : /\ r.Nnindcd = li[k].Nnindcd
                                         /\ r.Nnindnme = li[k].Nnindnme
                   /\ IF bm = {} THEN r.Markettype = Null /\ r.Listdt = Null
                      ELSE \E k \in bm : /\ r.Markettype = b[k].Markettype
                                         /\ r.Listdt = b[k].Listdt
                   /\ \A k \in tm : \E j2 \in 1..Len(out) :
                          origin[j2] = origin[j] /\ out[j2].ToverOsM = t[k].ToverOsM
                   /\ \A k \in bm : \E j2 \in 1..Len(out) :
                          /\ origin[j2] = origin[j]
                          /\ out[j2].Markettype = b[k].Markettype

C3_Witness ==
    /\ pc = "returned"
    /\ \E j \in 1..Len(result.rows) :
          LET r == result.rows[j]
          IN /\ r.ToverOsM = Null /\ r.Nnindcd = Null /\ r.Markettype = Null
             /\ \A k \in 1..Len(InputDict.turnover.rows) :
                    ~SameKey(InputDict.turnover.rows[k], r)
    /\ \E j \in 1..Len(result.rows) :
          LET r == result.rows[j]
          IN r.ToverOsM # Null /\ r.Nnindcd # Null /\ r.Markettype # Null

\* c is o * 1000 (a null stays null).
IsThousandTimes(c, o) == IF o = Null THEN c = Null ELSE c # Null /\ c[1] = 1000 * o[1]

\* C4: the returned Msmvosd is 1000 times that of the monthly_trade row the
\* output row comes from; every intermediate monthly_merged still carries the
\* input value, and only the table about to be returned is scaled.
C4_ScaledOnceAtEnd ==
    LET m == InputDict.monthly_trade.rows
    IN /\ ( /\ pc \in {"latest_industry", "merge_industry", "merge_basic", "sort", "scale"}
            /\ "Msmvosd" \in monthly_merged.cols )
          => /\ Len(origin) = Len(monthly_merged.rows)
             /\ \A j \in 1..Len(monthly_merged.rows) :
                    monthly_merged.rows[j].Msmvosd = m[origin[j]].Msmvosd
       /\ pc = "scale" =>
             monthly_merged = SortValuesLex(monthly_merged, <<"Stkcd", "Trdmnt">>)
       /\ pc = "return" =>
             \A j \in 1..Len(monthly_merged.rows) :
                 IsThousandTimes(monthly_merged.rows[j].Msmvosd, m[origin[j]].Msmvosd)
       /\ pc = "returned" =>
             /\ Len(origin) = Len(result.rows)
             /\ \A j \in 1..Len(result.rows) :
                    IsThousandTimes(result.rows[j].Msmvosd, m[origin[j]].Msmvosd)

C4_Witness ==
    /\ pc = "returned"
    /\ \E j, k \in 1..Len(result.rows) :
          /\ result.rows[j].Msmvosd = <<3000>>
          /\ result.rows[k].Msmvosd = <<4000>>
          /\ origin[j] > origin[k]
          /\ j < k

KeyLeq(a, b) ==
    \/ StrLess(a.Stkcd, b.Stkcd)
    \/ a.Stkcd = b.Stkcd /\ (a.Trdmnt = b.Trdmnt \/ StrLess(a.Trdmnt, b.Trdmnt))

\* C5: the returned rows are non-decreasing in (Stkcd, Trdmnt), and rows of
\* equal key are in the order they had after the joins (their index labels,
\* the positions after the last join, increase).
C5_SortedStable ==
    /\ pc = "sort" => monthly_merged.index = Iota(Len(monthly_merged.rows))
    /\ pc = "returned" =>
          /\ Range(result.index) = 1..Len(result.rows)
          /\ \A j \in 1..(Len(result.rows) - 1) :
                /\ KeyLeq(result.rows[j], result.rows[j + 1])
                /\ SameKey(result.rows[j], result.rows[j + 1])
                       => result.index[j] < result.index[j + 1]

C5_Witness ==
    /\ pc = "returned"
    /\ result.index # Iota(Len(result.rows))
    /\ \E j \in 1..(Len(result.rows) - 1) :
          /\ SameKey(result.rows[j], result.rows[j + 1])
          /\ result.rows[j] # result.rows[j + 1]
    /\ \E j \in 1..(Len(result.rows) - 1) :
          result.rows[j].Stkcd = <<1, 0>> /\ result.rows[j + 1].Stkcd = <<2>>

\* C6 (as claimed): a call on a mapping that lacks a key column ends with
\* MissingKeyError, one that lacks a projected column with SchemaError, and
\* nothing is returned.
C6_NamedErrors ==
    (Ended /\ (MissingKeyCol \/ MissingProjCol)) =>
        /\ pc = "raised"
        /\ result = None
        /\ err = IF MissingKeyCol THEN "MissingKeyError" ELSE "SchemaError"

\* C6 (amended): a call on a mapping that lacks a key column or a projected
\* column ends with KeyError in both cases, whichever step finds the column
\* missing, and nothing is returned: result is None unless the call returned.
C6_KeyErrorAllOrNothing ==
    /\ (Ended /\ (MissingKeyCol \/ MissingProjCol)) =>
          pc = "raised" /\ err = "KeyError" /\ result = None
    /\ pc # "returned" => result = None
    /\ pc = "raised" => err # "None"

C6_Witness ==
    /\ pc = "raised"
    /\ err = "KeyError"
    /\ Supplied
    /\ "Msmvosd" \notin mapping.monthly_trade.cols
    /\ result = None

\* C7: without a supplied mapping, load_all hands over a mapping with exactly
\* the five keys when the five files exist; when one is absent the call ends
\* with FileNotFoundError at the first absent file, after one load_all, each
\* earlier file read once, and nothing returned.
C7_LoadAllOrFileNotFound ==
    mapping = None =>
        /\ \A i \in 1..Len(reads) : reads[i] = LoadOrder[i].file /\ reads[i] \in files
        /\ pc \in LoadedPcs \ {"returned"} =>
              DOMAIN data_dict = Keys /\ FileNames \subseteq files
        /\ (Ended /\ FileNames \subseteq files) => pc = "returned"
        /\ (Ended /\ ~(FileNames \subseteq files)) =>
              /\ pc = "raised"
              /\ err = "FileNotFoundError"
              /\ result = None
              /\ loadCalls = 1
              /\ Len(reads) < Len(LoadOrder)
              /\ LoadOrder[Len(reads) + 1].file \notin files

C7_Witness ==
    /\ mapping = None
    /\ pc = "raised"
    /\ err = "FileNotFoundError"
    /\ Len(reads) = 4
    /\ result = None

\* C8: with a supplied mapping load_all is never invoked and no file is read,
\* the builder works on that mapping, and the call returns whenever the four
\* keys it uses are there with their columns (daily_trade or not); without a
\* mapping load_all is invoked once.
C8_SuppliedMappingOnly ==
    /\ mapping # None =>
          /\ loadCalls = 0
          /\ reads = <<>>
          /\ pc \in {"entry", "copy", "merge_turnover"} => data_dict = mapping
    /\ (Supplied /\ ~MissingKeyCol /\ ~MissingProjCol /\ Ended) => pc = "returned"
    /\ mapping = None =>
          /\ loadCalls \in {0, 1}
          /\ pc \in LoadedPcs \cup {"load"} => loadCalls = 1

C8_Witness ==
    /\ pc = "returned"
    /\ mapping # None
    /\ "daily_trade" \notin DOMAIN mapping
    /\ loadCalls = 0
    /\ Len(result.rows) > 0

Perms(n) == {p \in [1..n -> 1..n] : \A i, j \in 1..n : p[i] = p[j] => i = j}

\* C9: when an identifier has two industry rows sharing its maximum Listdt,
\* the code and the name of its output rows are those the same call yields on
\* every reordering of the industry rows.
C9_TieOrderIndependent ==
    pc = "returned" =>
        LET t   == InputDict.industry
            ind == t.rows
        IN \A j \in 1..Len(result.rows) :
            LET r  == result.rows[j]
                ir == {k \in 1..Len(ind) : ind[k].Stkcd = r.Stkcd}
                Tied == \E k1, k2 \in ir :
                           /\ k1 # k2
                           /\ ind[k1].Listdt # Null
                           /\ ind[k1].Listdt = ind[k2].Listdt
                           /\ \A k \in ir : /\ ind[k].Listdt # Null
                                            /\ ~StrLess(ind[k1].Listdt, ind[k].Listdt)
            IN Tied =>
                 \A q \in Perms(Len(ind)) :
                     LET li == LatestIndustry(Take(t, q), sortTies).rows
                     IN \E k \in 1..Len(li) : /\ li[k].Stkcd = r.Stkcd
                                              /\ li[k].Nnindcd = r.Nnindcd
                                              /\ li[k].Nnindnme = r.Nnindnme

\* C10: no step changes the caller's mapping, raw_data_path or the files, and
\* a call that returns after an earlier returned call returns the same panel.
C10_InputsUntouched ==
    [][ /\ mapping' = mapping
        /\ raw_data_path' = raw_data_path
        /\ files' = files
        /\ (pc' = "returned" /\ prev' # None) => result' = prev' ]_vars

C10_Witness ==
    /\ pc = "returned"
    /\ calls = 2
    /\ mapping # None
    /\ prev = result
    /\ \E j \in 1..Len(result.rows) :
          /\ result.rows[j].Msmvosd = <<3000>>
          /\ mapping.monthly_trade.rows[origin[j]].Msmvosd = <<3>>

====
